---- MODULE Spec2Model ----
(***************************************************************************)
(* Model of the CDP transport of thrall (src/src/cdp.ts, class CDPSession) *)
(* running on a single-threaded JavaScript event loop.                     *)
(*                                                                         *)
(* One session is modelled.  The socket events (open, error, message) are  *)
(* macrotasks: they run only when the microtask queue is empty.  The       *)
(* continuation of `await this.ready` in send() is a microtask: it runs in *)
(* FIFO order, after the promise has settled.  User code (send, on, off,   *)
(* close) may run at any point between two jobs.                           *)
(*                                                                         *)
(* On top of the session, the waits of Page (src/unnamed/part_002) are     *)
(* modelled: the waits that race an event against a timer (goto, reload,   *)
(* waitForNavigation, waitForResponse, goBack, goForward) in the           *)
(* specification SpecNav, built from the actions of the session, and the   *)
(* waits that poll (waitForSelector, waitForFunction) in the specification *)
(* SpecPoll, where the session is seen only through the answers to the     *)
(* queries of a probe.                                                     *)
(*                                                                         *)
(* Further layers, each in a specification of its own: Screencast          *)
(* (src/src/screencast.ts) in SpecCast, Keyboard (src/src/keyboard.ts) in  *)
(* SpecKbd, the queries getByText / getByRole of Page in SpecQuery, and    *)
(* the fan-out of an event to callbacks that subscribe and unsubscribe one *)
(* another in SpecFan.                                                     *)
(***************************************************************************)
EXTENDS Integers, Sequences, FiniteSets, TLC

\* ---------------------------------------------------------------- bounds
MaxCalls == 2        \* number of send() invocations explored
NumListeners == 3    \* number of distinct callback identities

Calls == 1..MaxCalls
Listeners == 1..NumListeners
Events == {"Page.loadEventFired", "Network.responseReceived"}

\* ------------------------------------------------------------- callbacks
\* The callback identities of the handler closures of Page: the load-event
\* handler of goto / reload / waitForNavigation, and the handler of
\* waitForResponse.
NavHandler == 2
NetHandler == 3

\* What a listener callback does to the session when it is invoked:
\*   "plain"      nothing
\*   "offSelf"    unsubscribes itself (the goto handler)
\*   "offOnMatch" unsubscribes itself when the params it is given match, and
\*                does nothing otherwise (the waitForResponse handler)
Behaviour(l) == IF l = NetHandler THEN "offOnMatch" ELSE IF l % 2 = 0 THEN "offSelf" ELSE "plain"

\* The event name each callback is written for: as in Page.goto and
\* Page.waitForResponse, a handler closure is registered under one event name.
EventOf(l) == IF l <= 2 THEN "Page.loadEventFired" ELSE "Network.responseReceived"

\* ---------------------------------------------------------------- values
Undefined == [tag |-> "undefined", k |-> 0]
ConnectionClosed == [tag |-> "Connection closed", k |-> 0]
WebSocketError == [tag |-> "WebSocket error", k |-> 0]

\* What the server answers to the command with id i (as a result, or as the
\* message of an error), and what it sends along with an event named m.
ResultOf(i) == [tag |-> "result", k |-> i]
MessageOf(i) == [tag |-> "message", k |-> i]
ParamsOf(m) == [tag |-> m, k |-> 0]

\* Mutant of Matches: every response matches.
MatchesAny(p) == TRUE

\* The `matches` of the waitForResponse handler, for the params of an event.
\* The url of the params is abstracted to the field k: 0 is a url the locator
\* (substring, RegExp or predicate) rejects, r > 0 is the r-th distinct
\* response whose url it accepts.
Matches(p) == p.k # 0

\* Inbound frames.  id = 0 stands for a frame without an id field, method = ""
\* for one without a method field, Undefined for an absent error / result /
\* params field; kind "text" is a frame that is not JSON.
Response(i, isError) == [kind |-> "json", id |-> i, error |-> IF isError THEN MessageOf(i) ELSE Undefined, result |-> IF isError THEN Undefined ELSE ResultOf(i), method |-> "", params |-> Undefined]

EventFrame(m) == [kind |-> "json", id |-> 0, error |-> Undefined, result |-> Undefined, method |-> m, params |-> ParamsOf(m)]

Malformed == [kind |-> "text", id |-> 0, error |-> Undefined, result |-> Undefined, method |-> "", params |-> Undefined]

NoFrame == [kind |-> "none", id |-> 0, error |-> Undefined, result |-> Undefined, method |-> "", params |-> Undefined]

IdleCall == [st |-> "idle", id |-> 0, n |-> 0, val |-> Undefined]

\* A wait of Page that has not been called:
\*   kind    the method called
\*   pc      where the method stands
\*   cmd     the send() call it awaits (0: none)
\*   loaded  its handler has run and resolved the promise of the event
\*   timer   its setTimeout timer: "none", "armed", "fired", "cleared"
\*   st, val the promise it returned and the value it settled with
\*   skipped its handler has been invoked with params that did not match
\*   closed  close() ran while it was in progress
\*   cur, len   currentIndex and entries.length of the navigation history
IdleWait == [kind |-> "none", pc |-> "idle", cmd |-> 0, loaded |-> FALSE, timer |-> "none", st |-> "pending", val |-> Undefined, skipped |-> FALSE, closed |-> FALSE, cur |-> 0, len |-> 0]

\* A timeout option: absent, or a number of milliseconds.
NoTimeout == [given |-> FALSE, ms |-> 0]
Timeout(ms) == [given |-> TRUE, ms |-> ms]

\* A polling wait of Page that has not been called, and the clock:
\*   kind     the method called
\*   pc       where the method stands: "idle", "query" (awaiting the lookup of
\*            the probe), "visibility" (awaiting element.isVisible()),
\*            "sleeping", "done"
\*   opt      the timeout option it was given
\*   timeout, visible, hidden   its locals of these names
\*   start    its local start = Date.now()
\*   now      Date.now()
\*   wake     when its Bun.sleep is due
\*   probes   the number of probes it has begun
\*   slept    it has called Bun.sleep
\*   seen     a lookup of its probe has found an element
\*   st, val  the promise it returned and the value it settled with
\*   closed   close() has run
IdlePoll == [kind |-> "none", pc |-> "idle", opt |-> NoTimeout, timeout |-> 0, visible |-> FALSE, hidden |-> FALSE, start |-> 0, now |-> 0, wake |-> 0, probes |-> 0, slept |-> FALSE, seen |-> FALSE, st |-> "pending", val |-> Undefined, closed |-> FALSE]

\* A Screencast after construction, on a page whose session is open:
\*   recording, frames   its fields of these names; a frame is written as the
\*                       sessionId of the event that carried it
\*   frameHandler        its field frameHandler is not null
\*   listening           the closure of frameHandler is registered with the
\*                       session for Page.screencastFrame
\*   ops        the calls of start() and stop() made so far, in order
\*   queue      the continuations of `await this.ready` in CDPSession.send
\*              that are queued as microtasks, in order
\*   sent       the command frames written to the socket, in order
\*   pushed     the number of Page.screencastFrame events the target has sent
\*   appended   the frames the handler has put into a buffer so far, in order
IdleCast == [recording |-> FALSE, frames |-> <<>>, frameHandler |-> FALSE, listening |-> FALSE, ops |-> <<>>, queue |-> <<>>, sent |-> <<>>, pushed |-> 0, appended |-> <<>>]

\* The params of an Input.dispatchKeyEvent command; Absent stands for a field
\* the params do not have.
Absent == 0 - 1
NoEvent == [type |-> "none", key |-> "", text |-> "", modifiers |-> Absent]

\* A Keyboard after construction:
\*   modifiers  its field of this name
\*   last       the params of the key event it dispatched last
\*   press      the key of the press() that has called down() and not yet up()
\*   text, tpc  the characters type() has still to go through, the first being
\*              the one in progress, and where type() stands in its loop
IdleKeyboard == [modifiers |-> 0, last |-> NoEvent, press |-> "", text |-> <<>>, tpc |-> "idle"]

\* A getByText / getByRole call that has not been made:
\*   kind     the method called
\*   pc       "idle", "evaluate" (awaiting Runtime.evaluate), "requestNode"
\*            (awaiting DOM.requestNode), "done"
\*   opt      the timeout option the caller passed
\*   present  the document holds an element the query matches
\*   start, now   Date.now() at the call, and now
\*   probes   the Runtime.evaluate commands it has sent
\*   st, val  the promise it returned and the value it settled with
IdleQuery == [kind |-> "none", pc |-> "idle", opt |-> NoTimeout, present |-> FALSE, start |-> 0, now |-> 0, probes |-> 0, st |-> "pending", val |-> Undefined]

\* The listeners of one event name before any on():
\*   set      the entries of the Set, in insertion order
\*   frame    the latest step was the handling of a frame of the event
\*   invoked  the callbacks that step invoked, in order
NoListeners == [set |-> <<>>, frame |-> FALSE, invoked |-> <<>>]

VARIABLES
    wsState,         \* the socket: "connecting", "open", "terminated" (close()), "failed" (error event)
    ready,           \* the promise this.ready: "pending", "resolved", "rejected"
    id,              \* this.id, the request-id counter
    callbacks,       \* this.callbacks: request id -> the send() call whose resolve/reject it holds
    eventListeners,  \* this.eventListeners: event name -> insertion-ordered Set of callbacks
    readyWaiters,    \* send() calls suspended at `await this.ready` while it is pending
    microtasks,      \* continuations of `await this.ready` queued to run, FIFO
    calls,           \* the promise returned by each send() call, with its count of resolve/reject invocations
    wire,            \* the command frames written to the socket, in order
    lastFrame,       \* the frame handleMessage was given in the latest step (NoFrame: that step was no message)
    delivered,       \* the listener invocations made in the latest step, in order
    resub,           \* the callback whose on() call, the latest on()/off() call, found it already registered (0: none)
    crashed,         \* an exception escaped the message handler and the host ended the process
    nav,             \* the wait of Page that races an event against a timer (goto, waitForResponse, ...)
    poll,            \* the wait of Page that polls (waitForSelector, waitForFunction), with the clock
    cast,            \* a Screencast with the calls made on it, and its side of the socket
    kbd,             \* a Keyboard with the calls in progress on it and the key event it dispatched last
    query,           \* a getByText / getByRole call of Page, with the document it looks at and the clock
    fan              \* the Set of listeners of one event name, with callbacks that call on() and off() for one another

vars == <<wsState, ready, id, callbacks, eventListeners, readyWaiters, microtasks, calls, wire, lastFrame, delivered, resub, crashed, nav, poll, cast, kbd, query, fan>>

\* The variables of the layers above the waits of Page.
rest == <<cast, kbd, query, fan>>

\* The variables of the session.
session == <<wsState, ready, id, callbacks, eventListeners, readyWaiters, microtasks, calls, wire, lastFrame, delivered, resub, crashed>>

\* --------------------------------------------------------------- helpers
Range(s) == {s[k] : k \in DOMAIN s}

Min(S) == CHOOSE x \in S : \A y \in S : x <= y

EmptyMap == [x \in {} |-> 0]

MapRemove(m, key) == [x \in (DOMAIN m) \ {key} |-> m[x]]

MapSet(m, key, v) == [x \in (DOMAIN m) \cup {key} |-> IF x = key THEN v ELSE m[x]]

\* Mutant of SetAdd: an array push, which does not look for the callback first.
SetAddPush(s, x) == Append(s, x)

\* Set.prototype.add on an insertion-ordered Set
SetAdd(s, x) == IF x \in Range(s) THEN s ELSE Append(s, x)

\* Set.prototype.delete outside of an iteration
SetDelete(s, x) == SelectSeq(s, LAMBDA y : y # x)

\* Mutant of IterDelete: an array splice, which shifts the later entries down
\* under the position of the running iteration.
IterDeleteSplice(ent, x) == SelectSeq(ent, LAMBDA y : y # x)

\* Set.prototype.delete while a for-of over the Set is in progress:
\* the entry is emptied in place, the positions of the others are kept.
IterDelete(ent, x) == [k \in DOMAIN ent |-> IF ent[k] = x THEN 0 ELSE ent[k]]

Compact(ent) == SelectSeq(ent, LAMBDA y : y # 0)

\* What every step other than the handling of a message leaves in the two
\* variables that observe the latest step.
NoMessage == lastFrame' = NoFrame /\ delivered' = <<>>

\* ------------------------------------------------------------------ Init
Init ==
    /\ wsState = "connecting"
    /\ ready = "pending"
    /\ id = 0
    /\ callbacks = EmptyMap
    /\ eventListeners = EmptyMap
    /\ readyWaiters = <<>>
    /\ microtasks = <<>>
    /\ calls = [c \in Calls |-> IdleCall]
    /\ wire = <<>>
    /\ lastFrame = NoFrame
    /\ delivered = <<>>
    /\ resub = 0
    /\ crashed = FALSE
    /\ nav = IdleWait
    /\ poll = IdlePoll
    /\ cast = IdleCast
    /\ kbd = IdleKeyboard
    /\ query = IdleQuery
    /\ fan = NoListeners

\* ------------------------------------------------------------- send()
\* Mutant of AwaitSuspends: send() without `await this.ready`.
AwaitNever(rdy) == FALSE

\* `await this.ready` suspends the call until the promise has settled; the
\* continuation then runs as a microtask.
AwaitSuspends(rdy) == rdy = "pending"

\* Mutant of NextId: `this.id + 1`, the counter never stored back.
NextIdNotStored(i) == 1

\* const id = ++this.id
NextId(i) == i + 1

\* this.ws.send(frame): written when the socket is open, discarded otherwise
WsSend(w, state, frame) == IF state = "open" THEN Append(w, frame) ELSE w

\* The promise of a send() call settles once; resolve/reject invocations are counted.
Settle(call, how, v) == IF call.st = "pending" THEN [call EXCEPT !.st = how, !.val = v, !.n = @ + 1] ELSE [call EXCEPT !.n = @ + 1]

NumIssued == Cardinality({c \in Calls : calls[c].st # "idle"})

\* send() is invoked by user code: the call runs up to `await this.ready`.
Send(c) ==
    /\ ~crashed
    /\ c = NumIssued + 1
    /\ calls[c].st = "idle"
    /\ calls' = [calls EXCEPT ![c].st = "awaitReady"]
    /\ IF AwaitSuspends(ready)
         THEN readyWaiters' = Append(readyWaiters, c) /\ UNCHANGED microtasks
         ELSE microtasks' = Append(microtasks, c) /\ UNCHANGED readyWaiters
    /\ NoMessage
    /\ UNCHANGED <<wsState, ready, id, callbacks, eventListeners, wire, resub, crashed>>

\* The continuation of send() after `await this.ready`.
Resume ==
    /\ ~crashed
    /\ microtasks # <<>>
    /\ LET c == Head(microtasks) IN
         /\ microtasks' = Tail(microtasks)
         /\ IF ready = "rejected"
              THEN /\ calls' = [calls EXCEPT ![c] = [@ EXCEPT !.st = "rejected", !.val = WebSocketError]]
                   /\ UNCHANGED <<id, callbacks, wire>>
              ELSE /\ id' = NextId(id)
                   /\ callbacks' = MapSet(callbacks, id', c)
                   /\ wire' = WsSend(wire, wsState, [id |-> id', cmd |-> c])
                   /\ calls' = [calls EXCEPT ![c] = [@ EXCEPT !.st = "pending", !.id = id']]
    /\ NoMessage
    /\ UNCHANGED <<wsState, ready, eventListeners, readyWaiters, resub, crashed>>

\* ------------------------------------------------------- socket events
WsOpen ==
    /\ ~crashed
    /\ wsState = "connecting"
    /\ microtasks = <<>>
    /\ wsState' = "open"
    /\ ready' = "resolved"
    /\ microtasks' = readyWaiters
    /\ readyWaiters' = <<>>
    /\ NoMessage
    /\ UNCHANGED <<id, callbacks, eventListeners, calls, wire, resub, crashed>>

WsError ==
    /\ ~crashed
    /\ microtasks = <<>>
    /\ \/ wsState \in {"connecting", "open"}
       \/ wsState = "terminated" /\ ready = "pending"
    /\ wsState' = IF wsState = "terminated" THEN "terminated" ELSE "failed"
    /\ ready' = IF ready = "pending" THEN "rejected" ELSE ready
    /\ microtasks' = IF ready = "pending" THEN readyWaiters ELSE microtasks
    /\ readyWaiters' = IF ready = "pending" THEN <<>> ELSE readyWaiters
    /\ NoMessage
    /\ UNCHANGED <<id, callbacks, eventListeners, calls, wire, resub, crashed>>

\* ------------------------------------------------------ handleMessage()
\* JSON.parse(data) returns a value for well-formed text and throws otherwise.
Parses(f) == f.kind = "json"

\* Mutant of CallbacksGet: responses matched to the oldest pending call, by
\* arrival order instead of by id.
CallbacksGetOldest(cbs, i) == IF DOMAIN cbs = {} THEN 0 ELSE cbs[Min(DOMAIN cbs)]

\* this.callbacks.get(msg.id): the call registered under the id, 0 for undefined
CallbacksGet(cbs, i) == IF i \in DOMAIN cbs THEN cbs[i] ELSE 0

\* Mutant of CallbacksDelete: the slot is left in the map after delivery.
CallbacksKeep(cbs, i) == cbs

\* this.callbacks.delete(msg.id)
CallbacksDelete(cbs, i) == MapRemove(cbs, i)

\* Mutant of HasError: the error field is never looked at.
HasErrorNever(msg) == FALSE

\* if (msg.error)
HasError(msg) == msg.error # Undefined

\* Mutant of ListenersGet: the listeners of every event name, whatever the frame's.
ListenersGetAll(map, m) == LET others == (DOMAIN map) \ {m} IN IF others = {} THEN map[m] ELSE map[m] \o map[CHOOSE e \in others : TRUE]

\* this.eventListeners.get(msg.method): the entries of the Set registered under the name
ListenersGet(map, m) == map[m]

\* Whether the callback l, invoked with params p, calls off() on itself.
Unsubscribes(l, p) == Behaviour(l) = "offSelf" \/ (Behaviour(l) = "offOnMatch" /\ Matches(p))

\* The effect of invoking listener(msg.params) on the Set being iterated.
Invoke(ent, l, p) == IF Unsubscribes(l, p) THEN IterDelete(ent, l) ELSE ent

\* for (const listener of listeners) listener(msg.params): a live iteration of
\* the Set from position i, with the params p of the frame; inv collects the
\* listeners invoked, in order.
RECURSIVE FanOut(_, _, _, _)
FanOut(ent, i, inv, p) ==
    IF i > Len(ent) THEN [ent |-> ent, inv |-> inv]
    ELSE IF ent[i] = 0 THEN FanOut(ent, i + 1, inv, p)
    ELSE FanOut(Invoke(ent, ent[i], p), i + 1, Append(inv, ent[i]), p)

\* Frames the server may put on the socket: a response (result or error) to any
\* command it has been sent, any number of times, an event, or garbage.
Inbound ==
    {Response(wire[j].id, e) : j \in DOMAIN wire, e \in BOOLEAN}
        \cup {EventFrame(m) : m \in Events}
        \cup {Malformed}

\* ws.onmessage: the whole of handleMessage(event.data) for one frame.
HandleMessage(f) ==
    /\ ~crashed
    /\ microtasks = <<>>
    /\ ready = "resolved"
    /\ wsState \in {"open", "terminated"}
    /\ lastFrame' = f
    /\ IF ~Parses(f)
         THEN \* JSON.parse throws and nothing catches it: the exception reaches the
              \* host, which reports it and goes on, or ends the process.
              /\ crashed' \in BOOLEAN
              /\ delivered' = <<>>
              /\ UNCHANGED <<callbacks, eventListeners, calls, resub>>
         ELSE IF f.id # 0
         THEN LET c == CallbacksGet(callbacks, f.id) IN
              /\ IF c # 0
                   THEN /\ callbacks' = CallbacksDelete(callbacks, f.id)
                        /\ calls' = [calls EXCEPT ![c] = IF HasError(f) THEN Settle(@, "rejected", f.error) ELSE Settle(@, "resolved", f.result)]
                   ELSE UNCHANGED <<callbacks, calls>>
              /\ delivered' = <<>>
              /\ UNCHANGED <<eventListeners, resub, crashed>>
         ELSE IF f.method # "" /\ f.method \in DOMAIN eventListeners
         THEN LET out == FanOut(ListenersGet(eventListeners, f.method), 1, <<>>, f.params) IN
              /\ eventListeners' = [eventListeners EXCEPT ![f.method] = Compact(out.ent)]
              /\ delivered' = [k \in DOMAIN out.inv |-> [listener |-> out.inv[k], params |-> f.params]]
              /\ resub' = IF \E k \in DOMAIN out.inv : Unsubscribes(out.inv[k], f.params) THEN 0 ELSE resub
              /\ UNCHANGED <<callbacks, calls, crashed>>
         ELSE /\ delivered' = <<>>
              /\ UNCHANGED <<callbacks, eventListeners, calls, resub, crashed>>
    /\ UNCHANGED <<wsState, ready, id, readyWaiters, microtasks, wire>>

\* --------------------------------------------------------- on() / off()
On(e, l) ==
    /\ ~crashed
    /\ LET set == IF e \in DOMAIN eventListeners THEN eventListeners[e] ELSE <<>> IN
         /\ eventListeners' = MapSet(eventListeners, e, SetAdd(set, l))
         /\ resub' = IF l \in Range(set) THEN l ELSE 0
    /\ NoMessage
    /\ UNCHANGED <<wsState, ready, id, callbacks, readyWaiters, microtasks, calls, wire, crashed>>

Off(e, l) ==
    /\ ~crashed
    /\ e \in DOMAIN eventListeners
    /\ eventListeners' = [eventListeners EXCEPT ![e] = SetDelete(@, l)]
    /\ resub' = 0
    /\ NoMessage
    /\ UNCHANGED <<wsState, ready, id, callbacks, readyWaiters, microtasks, calls, wire, crashed>>

\* -------------------------------------------------------------- close()
Close ==
    /\ ~crashed
    /\ calls' = [c \in Calls |-> IF \E i \in DOMAIN callbacks : callbacks[i] = c THEN Settle(calls[c], "rejected", ConnectionClosed) ELSE calls[c]]
    /\ callbacks' = EmptyMap
    /\ eventListeners' = EmptyMap
    /\ wsState' = "terminated"
    /\ resub' = 0
    /\ NoMessage
    /\ UNCHANGED <<ready, id, readyWaiters, microtasks, wire, crashed>>

\* ------------------------------------------------------------------ Next
\* The session on its own: no wait of Page is called.
Next ==
    \/ \E c \in Calls : Send(c) /\ UNCHANGED <<nav, poll, rest>>
    \/ Resume /\ UNCHANGED <<nav, poll, rest>>
    \/ WsOpen /\ UNCHANGED <<nav, poll, rest>>
    \/ WsError /\ UNCHANGED <<nav, poll, rest>>
    \/ \E f \in Inbound : HandleMessage(f) /\ UNCHANGED <<nav, poll, rest>>
    \/ \E l \in Listeners : On(EventOf(l), l) /\ UNCHANGED <<nav, poll, rest>>
    \/ \E l \in Listeners : Off(EventOf(l), l) /\ UNCHANGED <<nav, poll, rest>>
    \/ Close /\ UNCHANGED <<nav, poll, rest>>

Spec == Init /\ [][Next]_vars

\* =================================================================
\* Properties
\* =================================================================
Settled(c) == calls[c].st \in {"resolved", "rejected"}

Count(seq, x) == Cardinality({k \in DOMAIN seq : seq[k] = x})

NoDuplicates(seq) == \A j, k \in DOMAIN seq : j # k => seq[j] # seq[k]

InvokedListeners(d) == [k \in DOMAIN d |-> d[k].listener]

IsEventFrame(f) == f.kind = "json" /\ f.id = 0 /\ f.method # ""

RegisteredFor(m) == IF m \in DOMAIN eventListeners THEN eventListeners[m] ELSE <<>>

\* C1: whatever the order in which the responses arrive, a call that has settled
\* has settled with the answer to its own request id: resolved with the result
\* the server gave for that id, or rejected with the error message the server
\* gave for that id (or by close() / a socket error), never with the answer to
\* another call's id.
C1_OwnResponse ==
    \A c \in Calls :
        /\ calls[c].st = "resolved" => calls[c].val = ResultOf(calls[c].id)
        /\ calls[c].st = "rejected" => calls[c].val \in {MessageOf(calls[c].id), ConnectionClosed, WebSocketError}
        /\ calls[c].st = "pending" => calls[c].id \in DOMAIN callbacks /\ callbacks[calls[c].id] = c

\* The response to the later request arrived first and settled the later call,
\* while the earlier call is still pending.
C1_Witness ==
    \E c, d \in Calls :
        /\ calls[c].st = "pending" /\ calls[d].st = "resolved"
        /\ calls[c].id < calls[d].id
        /\ lastFrame.id = calls[d].id

\* C2 (as claimed): a close() rejects every send() call that is outstanding when
\* it runs with "Connection closed", and leaves no pending slot and no listener.
C2_CloseRejectsAllOutstanding ==
    [][Close =>
        /\ \A c \in Calls : calls[c].st \in {"awaitReady", "pending"} =>
               calls'[c].st = "rejected" /\ calls'[c].val = ConnectionClosed
        /\ callbacks' = EmptyMap
        /\ eventListeners' = EmptyMap]_vars

\* C3: resolve/reject of a call is invoked at most once; a settled call never
\* changes again and holds no slot; a response frame whose id has no slot (a
\* duplicate, or a response arriving after close()) invokes no callback and
\* changes nothing.
C3_SettledOnce ==
    [][/\ \A c \in Calls : calls'[c].n <= 1
       /\ \A c \in Calls : Settled(c) => calls'[c] = calls[c]
       /\ \A c \in Calls : Settled(c) => ~(\E i \in DOMAIN callbacks : callbacks[i] = c)
       /\ \A f \in Inbound : (HandleMessage(f) /\ f.id # 0 /\ f.id \notin DOMAIN callbacks) =>
              /\ delivered' = <<>>
              /\ UNCHANGED <<wsState, ready, id, callbacks, eventListeners, readyWaiters, microtasks, calls, wire, resub, crashed>>]_vars

\* A second frame for the id of an already resolved call, this time an error,
\* has been handled, and the call is still resolved.
C3_Witness ==
    \E c \in Calls :
        /\ calls[c].st = "resolved"
        /\ lastFrame.id = calls[c].id
        /\ lastFrame.error # Undefined

\* C4: ids are assigned in call order from a strictly increasing counter (calls
\* are numbered in the order they are made), no id is assigned twice, and the
\* command frames on the socket are in increasing id order.
C4_IdsIncrease ==
    /\ \A c, d \in Calls : (c < d /\ calls[d].id # 0) =>
           (calls[c].id # 0 /\ calls[c].id < calls[d].id)
    /\ \A c, d \in Calls : (c # d /\ calls[c].id # 0) => calls[c].id # calls[d].id
    /\ \A c \in Calls : calls[c].id <= id
    /\ \A j, k \in DOMAIN wire : j < k => wire[j].id < wire[k].id

C4_Witness ==
    /\ Len(wire) >= 2
    /\ \A c \in {1, 2} : calls[c].id = c

\* C5: nothing is written and no id is assigned before the open signal; a
\* send() issued before it waits; once the socket is open and the queued
\* continuations have run, every call made has been written, in call order.
C5_NoWriteBeforeOpen ==
    /\ ready # "resolved" => (wire = <<>> /\ id = 0 /\ callbacks = EmptyMap)
    /\ \A k \in DOMAIN readyWaiters : calls[readyWaiters[k]].st = "awaitReady"
    /\ \A j, k \in DOMAIN wire : j < k => wire[j].cmd < wire[k].cmd
    /\ (wsState = "open" /\ microtasks = <<>>) =>
           \A c \in Calls : calls[c].st # "idle" => \E j \in DOMAIN wire : wire[j].cmd = c

\* Two send() calls were issued before the open signal and are waiting for it.
C5_Witness ==
    /\ wsState = "connecting"
    /\ Len(readyWaiters) >= 2
    /\ wire = <<>>

\* C6: an error response rejects the call registered under its id with the
\* server's message, settles no other call, and causes no further write (no
\* retry): a call answered by the server has exactly one frame on the socket.
C6_ErrorRejects ==
    [][/\ \A f \in Inbound : (HandleMessage(f) /\ f.error # Undefined /\ f.id \in DOMAIN callbacks) =>
              LET c == callbacks[f.id] IN
              /\ calls'[c].st = "rejected"
              /\ calls'[c].val = f.error
              /\ \A d \in Calls \ {c} : calls'[d] = calls[d]
              /\ wire' = wire /\ id' = id
       /\ \A c \in Calls : calls'[c].val.tag \in {"result", "message"} =>
              Cardinality({j \in DOMAIN wire' : wire'[j].cmd = c}) = 1]_vars

\* A call was rejected with the server's message while another is still pending.
C6_Witness ==
    \E c, d \in Calls :
        /\ calls[c].st = "rejected" /\ calls[c].val = MessageOf(calls[c].id)
        /\ calls[d].st = "pending"

\* C7: handling an event frame invokes, within that step, exactly the callbacks
\* registered under the frame's event name, in the order of the Set (which is
\* the order of registration: on() adds at the end and nothing reorders), each
\* with the frame's params; no callback registered only under another name is
\* invoked, and a frame that is not an event invokes none.
OrderKept(old, new) ==
    IF Len(new) > Len(old) THEN SubSeq(new, 1, Len(old)) = old
    ELSE new = SelectSeq(old, LAMBDA x : x \in Range(new))

C8_SelfUnsubscribe ==
    [][\A f \in Inbound :
          (/\ HandleMessage(f)
           /\ IsEventFrame(f)
           /\ \E l \in Range(RegisteredFor(f.method)) : Behaviour(l) = "offSelf") =>
              /\ \A l \in Range(RegisteredFor(f.method)) : Count(InvokedListeners(delivered'), l) = 1
              /\ \A l \in Listeners : Count(InvokedListeners(delivered'), l) <= 1
              /\ eventListeners'[f.method] = SelectSeq(eventListeners[f.method], LAMBDA l : Behaviour(l) # "offSelf")]_vars

\* A callback unsubscribed itself during a fan-out and another callback,
\* registered after it, was invoked after it for the same frame.
C8_Witness ==
    /\ IsEventFrame(lastFrame)
    /\ \E j, k \in DOMAIN delivered :
           /\ j < k
           /\ Behaviour(delivered[j].listener) = "offSelf"
           /\ delivered[j].listener \notin Range(RegisteredFor(lastFrame.method))
           /\ delivered[k].listener \in Range(RegisteredFor(lastFrame.method))

\* C9: a callback is in the Set of an event name at most once, however often it
\* is subscribed; on() of a registered callback changes nothing; a frame invokes
\* it once; one off() leaves it not registered.
C9_SubscribeIdempotent ==
    [][/\ \A e \in DOMAIN eventListeners' : NoDuplicates(eventListeners'[e])
       /\ NoDuplicates(InvokedListeners(delivered'))
       /\ \A l \in Listeners : (On(EventOf(l), l) /\ l \in Range(RegisteredFor(EventOf(l)))) =>
              eventListeners' = eventListeners
       /\ \A l \in Listeners : Off(EventOf(l), l) =>
              l \notin Range(eventListeners'[EventOf(l)])]_vars

\* A callback was subscribed a second time, and the event frame that followed
\* invoked it once.
C9_Witness ==
    /\ resub # 0
    /\ IsEventFrame(lastFrame)
    /\ lastFrame.method = EventOf(resub)
    /\ Count(InvokedListeners(delivered), resub) = 1
    /\ Count(RegisteredFor(EventOf(resub)), resub) = 1

\* C10 (as claimed): a frame that does not parse changes neither map, settles no
\* call, invokes no listener, and dispatch goes on after it.
C10_MalformedDropped ==
    [][HandleMessage(Malformed) =>
        /\ UNCHANGED <<callbacks, eventListeners, calls>>
        /\ delivered' = <<>>
        /\ ~crashed']_vars

\* =================================================================
\* The waits of Page that race an event against a timer
\* =================================================================
MaxHistory == 2      \* longest navigation history explored
MaxMatching == 2     \* number of distinct responses whose url matches

LoadEvent == "Page.loadEventFired"
NetEvent == "Network.responseReceived"

NavKinds == {"goto", "reload", "waitForNavigation"}
HistoryKinds == {"goBack", "goForward"}

\* The value a wait resolves with when it has nothing to return.
Void == [tag |-> "void", k |-> 0]

\* The Error the timer callback of each wait rejects with.
TimeoutError(kind) ==
    IF kind = "reload" THEN [tag |-> "Reload timeout", k |-> 0]
    ELSE IF kind = "waitForResponse" THEN [tag |-> "Timeout waiting for response", k |-> 0]
    ELSE [tag |-> "Navigation timeout", k |-> 0]

\* The event frame whose params carry the response r (0: one whose url does
\* not match).
ResponseEvent(r) == [EventFrame(NetEvent) EXCEPT !.params.k = r]

\* The handler closure each wait registers, and the event name it registers it for.
HandlerOf(kind) == IF kind = "waitForResponse" THEN NetHandler ELSE NavHandler

\* Mutant of ClearTimeout: the timer is left as it is.
ClearTimeoutNever(t) == t

\* clearTimeout(timer)
ClearTimeout(t) == IF t = "armed" THEN "cleared" ELSE t

\* Mutant of TimeoutCleansUp: no timer callback unsubscribes the handler.
TimeoutCleansUpNever(kind) == FALSE

\* Whether the timer callback of the wait calls cdp.off() on the handler before
\* it rejects: that of waitForResponse does, that of goto, reload and
\* waitForNavigation only rejects.
TimeoutCleansUp(kind) == kind = "waitForResponse"

\* Mutant of CanGo: the entry is looked up whatever the current index.
CanGoAlways(kind, cur, len) == TRUE

\* goBack: history.currentIndex > 0; goForward: history.currentIndex < history.entries.length - 1
CanGo(kind, cur, len) == IF kind = "goBack" THEN cur > 0 ELSE cur < len - 1

\* A step of a wait that calls nothing of the session.
SessionIdle == NoMessage /\ UNCHANGED <<wsState, ready, id, callbacks, eventListeners, readyWaiters, microtasks, calls, wire, resub, crashed>>

\* A synchronous stretch of the wait is due to run: no other job runs before it.
NavBusy == nav.pc \in {"start", "afterHistory", "afterCommand"}

\* try { await Promise.race([loadPromise, timeoutPromise]) } finally { clearTimeout(timer) }
\* entered with the timer armed: the race settles at once when the promise of
\* the event is already resolved, and suspends the wait otherwise.
AwaitRace(n) ==
    IF n.loaded
    THEN [n EXCEPT !.pc = "done", !.st = "resolved", !.val = Void, !.timer = ClearTimeout(@)]
    ELSE [n EXCEPT !.pc = "racing"]

\* What a job of the session does to the wait n, where cs are the send() calls
\* and dl the listener invocations the job leaves: the handler of the wait, when
\* it was invoked, resolves the promise of the event (for waitForResponse: when
\* the params match, in which case it also clears the timer), and the wait goes
\* on when what it awaits has settled.
NavAfter(n, cs, dl) ==
    LET hit == {k \in DOMAIN dl : dl[k].listener = HandlerOf(n.kind) /\ n.kind # "none"}
        p == dl[CHOOSE k \in hit : TRUE].params
        fired == IF n.kind = "waitForResponse" THEN hit # {} /\ Matches(p) ELSE hit # {}
        n1 == [n EXCEPT !.loaded = @ \/ fired, !.skipped = @ \/ (hit # {} /\ ~fired)]
    IN  IF n1.pc \in {"history", "command"} /\ cs[n1.cmd].st = "rejected"
        THEN [n1 EXCEPT !.pc = "done", !.st = "rejected", !.val = cs[n1.cmd].val]
        ELSE IF n1.pc = "history" /\ cs[n1.cmd].st = "resolved"
        THEN [n1 EXCEPT !.pc = "afterHistory"]
        ELSE IF n1.pc = "command" /\ cs[n1.cmd].st = "resolved"
        THEN [n1 EXCEPT !.pc = "afterCommand"]
        ELSE IF n1.pc = "racing" /\ fired
        THEN [n1 EXCEPT !.pc = "done", !.st = "resolved", !.val = IF n.kind = "waitForResponse" THEN p ELSE Void, !.timer = ClearTimeout(@)]
        ELSE n1

\* An action of the session, seen from the wait.
Job(A) == ~NavBusy /\ A /\ nav' = NavAfter(nav, calls', delivered') /\ UNCHANGED <<poll, rest>>

\* goto(url) / reload(): the handler is registered, then the command is sent,
\* in one synchronous stretch.
NavStart(kind) ==
    /\ UNCHANGED <<poll, rest>>
    /\ nav.pc = "idle"
    /\ kind \in {"goto", "reload"}
    /\ On(LoadEvent, NavHandler)
    /\ nav' = [nav EXCEPT !.kind = kind, !.pc = "start"]

\* Mutant of ListenerEvent: every wait subscribes to the load event.
ListenerEventLoad(kind) == LoadEvent

\* The event name the wait passes to cdp.on() with its handler.
ListenerEvent(kind) == IF kind = "waitForResponse" THEN NetEvent ELSE LoadEvent

\* waitForNavigation() / waitForResponse(): the handler is registered and the
\* timer armed in one synchronous stretch.
WaitStart(kind) ==
    /\ UNCHANGED <<poll, rest>>
    /\ nav.pc = "idle"
    /\ kind \in {"waitForNavigation", "waitForResponse"}
    /\ On(ListenerEvent(kind), HandlerOf(kind))
    /\ nav' = [nav EXCEPT !.kind = kind, !.pc = "racing", !.timer = "armed"]

\* goBack() / goForward(): the history is asked for; the server holds len
\* entries and stands at index cur.
HistoryStart(kind, cur, len) ==
    /\ UNCHANGED <<poll, rest>>
    /\ nav.pc = "idle"
    /\ kind \in HistoryKinds
    /\ Send(NumIssued + 1)
    /\ nav' = [nav EXCEPT !.kind = kind, !.pc = "history", !.cmd = NumIssued + 1, !.cur = cur, !.len = len]

\* The wait goes on after a synchronous registration or after the send() call it
\* awaited has resolved.
NavContinue ==
    /\ UNCHANGED <<poll, rest>>
    /\ NavBusy
    /\ IF nav.pc = "start"
         THEN \* await this.cdp.send("Page.navigate" / "Page.reload")
              /\ Send(NumIssued + 1)
              /\ nav' = [nav EXCEPT !.pc = "command", !.cmd = NumIssued + 1]
         ELSE IF nav.pc = "afterHistory"
         THEN IF CanGo(nav.kind, nav.cur, nav.len)
              THEN \* await this.cdp.send("Page.navigateToHistoryEntry")
                   /\ Send(NumIssued + 1)
                   /\ nav' = [nav EXCEPT !.pc = "command", !.cmd = NumIssued + 1]
              ELSE /\ nav' = [nav EXCEPT !.pc = "done", !.st = "resolved", !.val = Void]
                   /\ SessionIdle
         ELSE IF nav.kind \in HistoryKinds
         THEN \* await this.waitForNavigation(options)
              /\ On(LoadEvent, NavHandler)
              /\ nav' = [nav EXCEPT !.pc = "racing", !.timer = "armed"]
         ELSE \* the command of goto / reload has resolved: the timer is armed and
              \* the race awaited
              /\ nav' = AwaitRace([nav EXCEPT !.timer = "armed"])
              /\ SessionIdle

\* The callback of setTimeout runs: it rejects, after unsubscribing the handler
\* in the waits whose callback does so.  A timer is a macrotask.
TimerFires ==
    /\ UNCHANGED <<poll, rest>>
    /\ ~crashed
    /\ ~NavBusy
    /\ microtasks = <<>>
    /\ nav.timer = "armed"
    /\ nav' = [nav EXCEPT !.timer = "fired", !.pc = "done",
                          !.st = IF @ = "pending" THEN "rejected" ELSE @,
                          !.val = IF nav.st = "pending" THEN TimeoutError(nav.kind) ELSE @]
    /\ IF TimeoutCleansUp(nav.kind) /\ NetEvent \in DOMAIN eventListeners
         THEN Off(NetEvent, HandlerOf(nav.kind))
         ELSE SessionIdle

\* close() is called while the wait may be in progress.
NavClose ==
    /\ UNCHANGED <<poll, rest>>
    /\ ~NavBusy
    /\ Close
    /\ nav' = [NavAfter(nav, calls', delivered') EXCEPT !.closed = @ \/ nav.pc \notin {"idle", "done"}]

\* The caller of waitForResponse goes on to issue a command of its own, as in
\* Promise.all([page.waitForResponse(u), page.click(selector)]).
CallerSends ==
    /\ nav.kind = "waitForResponse"
    /\ NumIssued < MaxCalls
    /\ Job(Send(NumIssued + 1))

\* Frames the server may put on the socket while a wait runs.
NavInbound ==
    {Response(wire[j].id, e) : j \in DOMAIN wire, e \in BOOLEAN}
        \cup {EventFrame(LoadEvent)}
        \cup {ResponseEvent(r) : r \in 0..MaxMatching}

NextNav ==
    \/ \E kind \in {"goto", "reload"} : NavStart(kind)
    \/ \E kind \in {"waitForNavigation", "waitForResponse"} : WaitStart(kind)
    \/ \E kind \in HistoryKinds : \E len \in 1..MaxHistory : \E cur \in 0..(len - 1) : HistoryStart(kind, cur, len)
    \/ NavContinue
    \/ TimerFires
    \/ NavClose
    \/ CallerSends
    \/ Job(Resume)
    \/ Job(WsOpen)
    \/ Job(WsError)
    \/ \E f \in NavInbound : Job(HandleMessage(f))

SpecNav == Init /\ [][NextNav]_vars

\* The session's timers fire, and a wait that is due to go on does: the event
\* loop runs every job that is ready.
SpecNavFair == SpecNav /\ WF_vars(TimerFires) /\ WF_vars(NavContinue)

\* -----------------------------------------------------------------
\* Properties of the waits that race an event against a timer
\* -----------------------------------------------------------------
Registered(l, e) == l \in Range(RegisteredFor(e))

\* The wait settled in this step by its timer.
TimedOutNow == nav.st = "pending" /\ nav'.st = "rejected" /\ nav'.val = TimeoutError(nav'.kind)

\* C11 (as claimed): a wait during which close() ran is rejected with
\* "Connection closed": it settles in no other way.
C11_CloseRejectsWait ==
    nav.closed => (nav.st = "pending" \/ (nav.st = "rejected" /\ nav.val = ConnectionClosed))

\* The command of goto / reload has been written to the socket and is not
\* answered yet.
CommandIssued ==
    /\ nav.kind \in {"goto", "reload"}
    /\ nav.pc = "command"
    /\ calls[nav.cmd].st = "pending"
    /\ \E j \in DOMAIN wire : wire[j].cmd = nav.cmd

\* C12 (as claimed): a navigation wait (goto, reload, waitForNavigation)
\* settles once and in one way.  It resolves only by the load event reaching
\* its handler while the timer has not fired; it is rejected with the timeout
\* error only in the step its timer fires, only when the load event has not
\* reached the handler before, and the firing timer always rejects it; once
\* settled it never changes; and once its command has been issued it does
\* settle, as long as the socket stays open.
C12_SettlesOnceIssued ==
    /\ [][/\ nav.st # "pending" => (nav'.st = nav.st /\ nav'.val = nav.val)
          /\ (nav'.kind \in NavKinds /\ nav.st = "pending" /\ nav'.st = "resolved") =>
                 (nav'.loaded /\ nav.timer # "fired" /\ nav'.timer = "cleared")
          /\ (nav'.kind \in NavKinds /\ TimedOutNow) =>
                 (nav.timer = "armed" /\ nav'.timer = "fired" /\ ~nav.loaded)
          /\ (nav.kind \in NavKinds /\ nav.timer = "armed" /\ nav'.timer = "fired") => TimedOutNow
          /\ (nav.kind \in NavKinds /\ nav.pc = "racing" /\ \E k \in DOMAIN delivered' : delivered'[k].listener = NavHandler) =>
                 nav'.st = "resolved"]_vars
    /\ (CommandIssued ~> (nav.st # "pending" \/ wsState # "open"))

\* C13 (as claimed): a navigation wait that settled by timeout has its
\* load-event handler removed.
C13_TimeoutRemovesListener ==
    (nav.kind \in NavKinds /\ nav.st = "rejected" /\ nav.val = TimeoutError(nav.kind)) =>
        ~Registered(NavHandler, LoadEvent)

\* C14: once waitForResponse has settled, by a matching event or by its
\* timeout, its handler is not registered and its timer is not armed, and no
\* later step changes the wait: neither the timer nor the handler acts for it
\* again.
C14_Released ==
    (nav.kind = "waitForResponse" /\ nav.st # "pending") =>
        (~Registered(NetHandler, NetEvent) /\ nav.timer \in {"cleared", "fired"})

C14_ListenerAndTimerReleased ==
    [][/\ C14_Released'
       /\ (nav.kind = "waitForResponse" /\ nav.st # "pending") => nav' = nav]_vars

\* waitForResponse was rejected by its timeout, after its handler had been
\* invoked for a response that did not match, on a session that was not closed.
C14_Witness ==
    /\ nav.kind = "waitForResponse"
    /\ nav.st = "rejected"
    /\ nav.timer = "fired"
    /\ nav.skipped
    /\ ~nav.closed
    /\ NetEvent \in DOMAIN eventListeners

\* A response event whose url the locator of the wait accepts.
IsMatchingResponse(f) == f.method = NetEvent /\ f.params.k \in 1..MaxMatching

\* C15: while waitForResponse is pending with its handler registered, a response
\* event whose url matches resolves it with the params of that event; any other
\* frame leaves it as it is; once resolved, no later event changes the result.
C15_FirstMatchWins ==
    [][\A f \in NavInbound : (HandleMessage(f) /\ nav.kind = "waitForResponse") =>
          IF nav.st = "pending" /\ IsMatchingResponse(f) /\ Registered(NetHandler, NetEvent)
          THEN nav'.st = "resolved" /\ nav'.val = f.params
          ELSE nav'.st = nav.st /\ nav'.val = nav.val]_vars

\* waitForResponse saw a response that did not match, was resolved by a
\* matching one, and another matching response has arrived since.
C15_Witness ==
    /\ nav.kind = "waitForResponse"
    /\ nav.st = "resolved"
    /\ nav.skipped
    /\ IsMatchingResponse(lastFrame)
    /\ lastFrame.params # nav.val

\* goBack at the first entry, goForward at the last.
AtEdge(n) == (n.kind = "goBack" /\ n.cur = 0) \/ (n.kind = "goForward" /\ n.cur = n.len - 1)

\* C16: goBack at the first entry of the history and goForward at the last
\* send nothing but the history query, register no handler and arm no timer,
\* and resolve once the history has been answered.
C16_NoOpAtEdge ==
    AtEdge(nav) =>
        /\ nav.timer = "none"
        /\ ~Registered(NavHandler, LoadEvent)
        /\ NumIssued <= 1 /\ Len(wire) <= 1
        /\ nav.pc \in {"history", "afterHistory", "done"}
        /\ (nav.pc = "done" /\ calls[nav.cmd].st = "resolved") => (nav.st = "resolved" /\ nav.val = Void)

\* goBack was called at the first of two entries and has resolved.
C16_Witness ==
    /\ nav.kind = "goBack"
    /\ nav.cur = 0 /\ nav.len = 2
    /\ nav.pc = "done"
    /\ nav.st = "resolved"

\* =================================================================
\* The waits of Page that poll
\* =================================================================
MaxTicks == 3        \* the clock is explored up to MaxTicks poll intervals
MaxProbes == 3       \* probes explored in one wait
MaxTimeout == 2      \* longest timeout option explored, in poll intervals

\* const { timeout = 30000 } = options
DefaultTimeout == 30000

\* await Bun.sleep(100); the clock advances in steps of this length
PollInterval == 100

\* The timeout options explored: absent, negative, zero, positive.
TimeoutOptions == {NoTimeout} \cup {Timeout(t * PollInterval) : t \in (0 - 1)..MaxTimeout}

\* const { timeout = 30000 } = options: the default stands in for an absent
\* (undefined) option only.
EffectiveTimeout(opt) == IF opt.given THEN opt.ms ELSE DefaultTimeout

\* The computed style and box of an element, as element.isVisible() reads them.
Styles == [display : {"block", "none"}, visibility : {"visible", "hidden"}, opacity : {"1", "0"}, offsetWidth : {0, 8}, offsetHeight : {0, 8}]

\* Mutant of IsVisible: the box of the element is not looked at.
IsVisibleAnyBox(e) == e.display # "none" /\ e.visibility # "hidden" /\ e.opacity # "0"

\* The function element.isVisible() runs on the element.
IsVisible(e) == e.display # "none" /\ e.visibility # "hidden" /\ e.opacity # "0" /\ e.offsetWidth > 0 /\ e.offsetHeight > 0

\* What the polling waits settle with.
Null == [tag |-> "null", k |-> 0]
Element == [tag |-> "ElementHandle", k |-> 0]
Truthy == [tag |-> "value", k |-> 0]
RemoteError == [tag |-> "message", k |-> 0]

PollTimeoutError(kind) ==
    IF kind = "waitForSelector" THEN [tag |-> "Timeout waiting for selector", k |-> 0]
    ELSE [tag |-> "Timeout waiting for function", k |-> 0]

Return(p, v) == [p EXCEPT !.pc = "done", !.st = "resolved", !.val = v]

Throw(p, v) == [p EXCEPT !.pc = "done", !.st = "rejected", !.val = v]

\* await Bun.sleep(100)
Sleep(p) == [p EXCEPT !.pc = "sleeping", !.slept = TRUE, !.wake = p.now + PollInterval]

\* while (Date.now() - start < timeout) { probe ... } throw new Error("Timeout ...")
\* at the head of the loop: the next probe begins, or the wait fails.
LoopHead(p) ==
    IF p.now - p.start < p.timeout
    THEN [p EXCEPT !.pc = "query", !.probes = @ + 1]
    ELSE Throw(p, PollTimeoutError(p.kind))

\* waitForSelector after `await this.$(selector)`: found tells whether the
\* lookup returned an element.
AfterLookup(p, found) ==
    IF p.hidden
    THEN IF ~found THEN Return(p, Null) ELSE [p EXCEPT !.pc = "visibility"]
    ELSE IF found
    THEN IF ~p.visible THEN Return(p, Element) ELSE [p EXCEPT !.pc = "visibility"]
    ELSE Sleep(p)

\* waitForSelector after `await element.isVisible()`
AfterIsVisible(p, isVisible) ==
    IF p.hidden
    THEN IF ~isVisible THEN Return(p, Element) ELSE Sleep(p)
    ELSE IF isVisible THEN Return(p, Element) ELSE Sleep(p)

\* waitForFunction after `await this.cdp.send("Runtime.evaluate")`
AfterEvaluate(p, truthy) == IF truthy THEN Return(p, Truthy) ELSE Sleep(p)

\* waitForSelector(selector, options) / waitForFunction(fn, options) is called
\* on an open session and runs to the first await.
PollStart(kind, opt, visible, hidden) ==
    /\ poll.pc = "idle"
    /\ ~poll.closed
    /\ kind = "waitForFunction" => (~visible /\ ~hidden)
    /\ poll' = LoopHead([poll EXCEPT !.kind = kind, !.opt = opt, !.timeout = EffectiveTimeout(opt), !.visible = visible, !.hidden = hidden, !.start = poll.now])
    /\ UNCHANGED <<session, nav, rest>>

\* The server answers the lookup of the probe: the selector matches an element
\* or none, the function evaluates to a truthy value or not.
AnswerQuery(found) ==
    /\ poll.pc = "query"
    /\ ~poll.closed
    /\ poll' = IF poll.kind = "waitForSelector"
                 THEN AfterLookup([poll EXCEPT !.seen = @ \/ found], found)
                 ELSE AfterEvaluate(poll, found)
    /\ UNCHANGED <<session, nav, rest>>

\* The server answers element.isVisible(), run on the element as it is then.
AnswerIsVisible(e) ==
    /\ poll.pc = "visibility"
    /\ ~poll.closed
    /\ poll' = AfterIsVisible(poll, IsVisible(e))
    /\ UNCHANGED <<session, nav, rest>>

\* The server answers a query of the probe with an error (e.g. the node is gone).
QueryFails ==
    /\ poll.pc \in {"query", "visibility"}
    /\ ~poll.closed
    /\ poll' = Throw(poll, RemoteError)
    /\ UNCHANGED <<session, nav, rest>>

\* Time passes.  (The clock is explored up to MaxTicks intervals, and up to the
\* end of a sleep that has begun.)
Tick ==
    /\ poll.pc \notin {"idle", "done"}
    /\ poll.now < MaxTicks * PollInterval \/ (poll.pc = "sleeping" /\ poll.now < poll.wake)
    /\ poll' = [poll EXCEPT !.now = @ + PollInterval]
    /\ UNCHANGED <<session, nav, rest>>

\* Bun.sleep is over: the loop goes on at its head.  (After MaxProbes probes
\* only the end of the loop is explored.)
Wake ==
    /\ poll.pc = "sleeping"
    /\ poll.now >= poll.wake
    /\ poll.probes < MaxProbes \/ poll.now - poll.start >= poll.timeout
    /\ poll' = LoopHead(poll)
    /\ UNCHANGED <<session, nav, rest>>

\* close() is called: the query that holds a slot is rejected; a query sent
\* afterwards is never answered.
PollClose ==
    /\ ~poll.closed
    /\ poll.pc # "done"
    /\ poll' = IF poll.pc \in {"query", "visibility"}
                 THEN [Throw(poll, ConnectionClosed) EXCEPT !.closed = TRUE]
                 ELSE [poll EXCEPT !.closed = TRUE]
    /\ UNCHANGED <<session, nav, rest>>

NextPoll ==
    \/ \E kind \in {"waitForSelector", "waitForFunction"} : \E opt \in TimeoutOptions : \E visible, hidden \in BOOLEAN : PollStart(kind, opt, visible, hidden)
    \/ \E found \in BOOLEAN : AnswerQuery(found)
    \/ \E e \in Styles : AnswerIsVisible(e)
    \/ QueryFails
    \/ Tick
    \/ Wake
    \/ PollClose

SpecPoll == Init /\ [][NextPoll]_vars

\* The event loop runs the continuation of a sleep that is over; time passes;
\* the server answers the queries it is sent while the session is open.
SpecPollFair ==
    /\ SpecPoll
    /\ WF_vars(Wake)
    /\ WF_vars(Tick)
    /\ WF_vars((\E found \in BOOLEAN : AnswerQuery(found)) \/ (\E e \in Styles : AnswerIsVisible(e)) \/ QueryFails)

\* -----------------------------------------------------------------
\* Properties of the waits that poll
\* -----------------------------------------------------------------
TimedOut(p) == p.st = "rejected" /\ p.val = PollTimeoutError(p.kind)

\* C17 (as claimed): a polling wait that fails with the timeout error has
\* performed at least one probe, whatever its timeout.
C17_ProbesBeforeTimeout ==
    TimedOut(poll) => poll.probes >= 1

\* C18 (as claimed): a wait given the timeout 0 runs with the default timeout,
\* and does not fail at once.
C18_ZeroMeansDefault ==
    (poll.kind # "none" /\ poll.opt = Timeout(0)) =>
        (poll.timeout = DefaultTimeout /\ ~(TimedOut(poll) /\ poll.now = poll.start))

\* Computed-visible: display not none, visibility not hidden, non-zero opacity
\* and a box of non-zero area.
ComputedVisible(e) ==
    /\ e.display # "none"
    /\ e.visibility # "hidden"
    /\ e.opacity # "0"
    /\ e.offsetWidth * e.offsetHeight > 0

\* The policy matrix: whether a poll succeeds, for an element found or not
\* and, when visibility was asked for, computed-visible or not.
PolicySucceeds(visible, hidden, found, cv) ==
    IF hidden THEN ~found \/ ~cv
    ELSE IF visible THEN found /\ cv
    ELSE found

Pending(p, pc) == p.pc = pc /\ p.st = "pending"

\* C19: a poll of waitForSelector whose queries are answered ends as the policy
\* matrix says.  When the lookup alone decides (nothing found, or found with
\* neither flag set) the wait resolves or sleeps on that answer; otherwise it
\* asks for the visibility of the element and resolves or sleeps on it.  It
\* resolves with the element, or with null for hidden and nothing found; a poll
\* that does not succeed leaves the wait pending in Bun.sleep.
C19_PolicyMatrix ==
    [][/\ \A found \in BOOLEAN : (AnswerQuery(found) /\ poll.kind = "waitForSelector") =>
              IF ~found \/ (~poll.hidden /\ ~poll.visible)
              THEN IF PolicySucceeds(poll.visible, poll.hidden, found, FALSE)
                   THEN poll'.st = "resolved" /\ poll'.val = (IF found THEN Element ELSE Null)
                   ELSE Pending(poll', "sleeping") /\ poll'.wake = poll.now + PollInterval
              ELSE Pending(poll', "visibility")
       /\ \A e \in Styles : AnswerIsVisible(e) =>
              IF PolicySucceeds(poll.visible, poll.hidden, TRUE, ComputedVisible(e))
              THEN poll'.st = "resolved" /\ poll'.val = Element
              ELSE Pending(poll', "sleeping") /\ poll'.wake = poll.now + PollInterval]_vars

\* waitForSelector with hidden set found a visible element, slept, and resolved
\* on a later poll with the element, by then not visible.
C19_Witness ==
    /\ poll.kind = "waitForSelector"
    /\ poll.hidden
    /\ poll.slept
    /\ poll.probes >= 2
    /\ poll.st = "resolved"
    /\ poll.val = Element

\* C20 (as claimed): waitForSelector with hidden set, none of whose lookups
\* finds an element and none of whose queries fails, ends resolved with null on
\* its first poll and without having slept.
C20_HiddenNeverMatching ==
    (/\ poll.kind = "waitForSelector"
     /\ poll.hidden
     /\ ~poll.seen
     /\ poll.st # "pending"
     /\ poll.val \notin {RemoteError, ConnectionClosed}) =>
        (poll.st = "resolved" /\ poll.val = Null /\ poll.probes = 1 /\ ~poll.slept)

DeadlinePassed(p) == p.now - p.start >= p.timeout

\* C21 (as claimed): waitForSelector begins a probe only at the head of its
\* loop, on entry or after a sleep, and only while the deadline has not passed;
\* it fails with the timeout error of the selector only once the deadline has
\* passed; and a call whose deadline has passed and that has not settled does
\* terminate.
C21_PollTerminates ==
    /\ [][poll'.kind = "waitForSelector" =>
              /\ poll'.probes # poll.probes =>
                     /\ poll'.probes = poll.probes + 1
                     /\ poll.pc \in {"idle", "sleeping"}
                     /\ ~DeadlinePassed(poll')
                     /\ Pending(poll', "query")
              /\ (poll.st = "pending" /\ TimedOut(poll')) =>
                     /\ DeadlinePassed(poll')
                     /\ poll.pc \in {"idle", "sleeping"}
                     /\ poll'.val = PollTimeoutError("waitForSelector")]_vars
    /\ ((poll.kind = "waitForSelector" /\ poll.st = "pending" /\ DeadlinePassed(poll)) ~> (poll.st # "pending"))

\* =================================================================
\* Screencast
\* =================================================================
MaxOps == 4          \* calls of start() and stop() explored
MaxFrames == 2       \* Page.screencastFrame events explored

StartCmd == "Page.startScreencast"
StopCmd == "Page.stopScreencast"
AckCmd == "Page.screencastFrameAck"

AlreadyRecording == [tag |-> "Screencast already recording", k |-> 0]
NotRecording == [tag |-> "Screencast not recording", k |-> 0]

\* A call of start() or stop():
\*   st     "queued" (its command waits at `await this.ready` in send),
\*          "awaiting" (its command is written and not answered), "resolved",
\*          "rejected" (its command was answered with an error), "refused"
\*          (it threw at its guard)
\*   val    the error it was rejected with
\*   ret    the array stop() returned
\*   count  what frameCount() returned immediately before the call
Op(op, st, val, count) == [op |-> op, st |-> st, val |-> val, ret |-> <<>>, count |-> count]

\* A command frame: of the call with index k in ops, or the acknowledgment of
\* the frame with sessionId k.
Command(method, k) == [method |-> method, k |-> k]

\* frameCount()
FrameCount(c) == Len(c.frames)

\* isRecording()
IsRecording(c) == c.recording

\* Mutant of StartGuard: start() without its guard.
StartGuardNever(c) == FALSE

\* if (this.recording) throw new Error("Screencast already recording")
StartGuard(c) == c.recording

\* Mutant of StopGuard: stop() without its guard.
StopGuardNever(c) == FALSE

\* if (!this.recording) throw new Error("Screencast not recording")
StopGuard(c) == ~c.recording

\* Mutant of MacrotaskReady: a socket message is handled while continuations
\* are still queued.
MacrotaskReadyAlways(q) == TRUE

\* A socket message is handled only when the microtask queue is empty: the
\* continuation of `await this.ready` in send() runs before the next message.
MacrotaskReady(q) == q = <<>>

\* The code that calls start() and stop() runs in a job of its own: not between
\* the frame handler and the continuation that writes its acknowledgment.
UserMayCall(q) == \A k \in DOMAIN q : q[k].method # AckCmd

\* this.frameHandler, invoked with the params of a frame event
FrameHandler(c, sessionId) ==
    IF ~c.recording THEN c
    ELSE [c EXCEPT !.frames = Append(@, sessionId), !.appended = Append(@, sessionId), !.queue = Append(@, Command(AckCmd, sessionId))]

\* Mutant of AfterStop: stop() that leaves the frame listener registered.
AfterStopKeepsListener(c) == [c EXCEPT !.recording = FALSE]

\* stop() after `await this.cdp.send("Page.stopScreencast")`, up to its return
AfterStop(c) == [c EXCEPT !.listening = IF c.frameHandler THEN FALSE ELSE @, !.frameHandler = FALSE, !.recording = FALSE]

\* start() is called and runs to its first await.
CastStart ==
    /\ Len(cast.ops) < MaxOps
    /\ UserMayCall(cast.queue)
    /\ cast' = IF StartGuard(cast)
                 THEN [cast EXCEPT !.ops = Append(@, Op("start", "refused", AlreadyRecording, FrameCount(cast)))]
                 ELSE [cast EXCEPT !.frames = <<>>, !.recording = TRUE, !.frameHandler = TRUE, !.listening = TRUE,
                                   !.ops = Append(@, Op("start", "queued", Undefined, FrameCount(cast))),
                                   !.queue = Append(@, Command(StartCmd, Len(cast.ops) + 1))]
    /\ UNCHANGED <<session, nav, poll, kbd, query, fan>>

\* stop() is called and runs to its first await.
CastStop ==
    /\ Len(cast.ops) < MaxOps
    /\ UserMayCall(cast.queue)
    /\ cast' = IF StopGuard(cast)
                 THEN [cast EXCEPT !.ops = Append(@, Op("stop", "refused", NotRecording, FrameCount(cast)))]
                 ELSE [cast EXCEPT !.ops = Append(@, Op("stop", "queued", Undefined, FrameCount(cast))),
                                   !.queue = Append(@, Command(StopCmd, Len(cast.ops) + 1))]
    /\ UNCHANGED <<session, nav, poll, kbd, query, fan>>

\* The oldest continuation of `await this.ready` runs: send() writes its frame.
CastWrite ==
    /\ cast.queue # <<>>
    /\ LET cmd == Head(cast.queue) IN
       cast' = [cast EXCEPT !.queue = Tail(@), !.sent = Append(@, cmd),
                            !.ops = IF cmd.method = AckCmd THEN @ ELSE [@ EXCEPT ![cmd.k].st = "awaiting"]]
    /\ UNCHANGED <<session, nav, poll, kbd, query, fan>>

\* The target pushes a Page.screencastFrame event, handleMessage fans it out.
\* (The answers to the acknowledgments settle promises nobody reads.)
CastFrame ==
    /\ MacrotaskReady(cast.queue)
    /\ cast.pushed < MaxFrames
    /\ \E k \in DOMAIN cast.sent : cast.sent[k].method = StartCmd
    /\ cast' = [(IF cast.listening THEN FrameHandler(cast, cast.pushed + 1) ELSE cast) EXCEPT !.pushed = cast.pushed + 1]
    /\ UNCHANGED <<session, nav, poll, kbd, query, fan>>

\* The target answers the command of call i, and the call goes on after its
\* await to its end.
CastAnswer(i, ok) ==
    /\ MacrotaskReady(cast.queue)
    /\ i \in DOMAIN cast.ops
    /\ cast.ops[i].st = "awaiting"
    /\ cast' = IF ~ok THEN [cast EXCEPT !.ops[i].st = "rejected", !.ops[i].val = RemoteError]
                 ELSE IF cast.ops[i].op = "start" THEN [cast EXCEPT !.ops[i].st = "resolved"]
                 ELSE [AfterStop(cast) EXCEPT !.ops[i].st = "resolved", !.ops[i].ret = cast.frames]
    /\ UNCHANGED <<session, nav, poll, kbd, query, fan>>

NextCast ==
    \/ CastStart
    \/ CastStop
    \/ CastWrite
    \/ CastFrame
    \/ \E i \in 1..MaxOps : \E ok \in BOOLEAN : CastAnswer(i, ok)

SpecCast == Init /\ [][NextCast]_vars

\* The call made in this step, if the step is a call of op.
Called(op) == Len(cast'.ops) = Len(cast.ops) + 1 /\ cast'.ops[Len(cast'.ops)].op = op

LastOp(c) == c.ops[Len(c.ops)]

\* C22: start() called while the recording flag is set, also before the command
\* of the start() that set it has been answered, is rejected with 'Screencast
\* already recording' and changes neither the flag, the buffer nor the
\* registration of the frame listener.
C22_StartTwiceRefused ==
    [][(cast.recording /\ Called("start")) =>
           /\ LastOp(cast').st = "refused"
           /\ LastOp(cast').val = AlreadyRecording
           /\ cast'.recording = cast.recording
           /\ cast'.frames = cast.frames
           /\ cast'.listening = cast.listening
           /\ cast'.frameHandler = cast.frameHandler
           /\ cast'.queue = cast.queue]_vars

\* A second start() has been refused while the command of the first was not yet
\* answered, with a frame in the buffer.
C22_Witness ==
    /\ Len(cast.ops) >= 2
    /\ cast.ops[1].op = "start" /\ cast.ops[1].st \in {"queued", "awaiting"}
    /\ cast.ops[2].op = "start" /\ cast.ops[2].st = "refused"
    /\ cast.frames # <<>>

\* C23: stop() called while the recording flag is not set, before any start()
\* or after a stop() has completed, is rejected with 'Screencast not recording',
\* sends no command and leaves the buffer as it is.
C23_StopIdleRefused ==
    [][(~cast.recording /\ Called("stop")) =>
           /\ LastOp(cast').st = "refused"
           /\ LastOp(cast').val = NotRecording
           /\ cast'.queue = cast.queue
           /\ cast'.sent = cast.sent
           /\ cast'.frames = cast.frames
           /\ cast'.recording = cast.recording]_vars

\* stop() has been refused after a recording with a frame was stopped.
C23_Witness ==
    /\ \E i \in DOMAIN cast.ops : cast.ops[i].op = "stop" /\ cast.ops[i].st = "resolved" /\ cast.ops[i].ret # <<>>
    /\ LastOp(cast).op = "stop" /\ LastOp(cast).st = "refused"
    /\ cast.frames # <<>>

IsAck(cmd) == cmd.method = AckCmd

\* The acknowledgments among the frames of q, in order.
Acks(q) == SelectSeq(q, IsAck)

\* The acknowledgments of the frames of buffer, in order.
AcksFor(buffer) == [k \in DOMAIN buffer |-> Command(AckCmd, buffer[k])]

\* C24: a frame event pushed while the recording flag is set is appended to the
\* buffer and the acknowledgment with its sessionId is queued for it; by then
\* the acknowledgment of every earlier frame has been written; a queued
\* acknowledgment is written before anything else happens; so at any time the
\* acknowledgments written and queued are those of the frames buffered, in
\* the order the frames arrived.
C24_FramesAcked ==
    /\ [][(cast.recording /\ cast'.pushed = cast.pushed + 1) =>
              /\ cast'.frames = Append(cast.frames, cast'.pushed)
              /\ Acks(cast.sent) = AcksFor(cast.appended)
              /\ cast'.queue = <<Command(AckCmd, cast'.pushed)>>]_vars
    /\ [][Acks(cast.queue) # <<>> => cast'.sent = Append(cast.sent, Head(cast.queue))]_vars
    /\ [](Acks(cast.sent) \o Acks(cast.queue) = AcksFor(cast.appended))

\* Two frames have been buffered in one recording and acknowledged.
C24_Witness ==
    /\ cast.recording
    /\ Len(cast.frames) >= 2
    /\ Acks(cast.sent) = AcksFor(cast.frames)

\* Call i settles in this step as st.
Settles(i, st) == i \in DOMAIN cast.ops /\ cast.ops[i].st = "awaiting" /\ cast'.ops[i].st = st

C26_BufferChanges ==
    /\ [][cast'.frames # cast.frames =>
              \/ cast.recording /\ \E sessionId \in 1..MaxFrames : cast'.frames = Append(cast.frames, sessionId)
              \/ cast'.frames = <<>> /\ Called("start") /\ LastOp(cast').st # "refused"]_vars
    /\ [](\A i \in DOMAIN cast.ops : (cast.ops[i].op = "start" /\ cast.ops[i].count > 0) => cast.ops[i].st # "rejected")

\* C27 (as claimed): the array a stop() returns is as long as frameCount() was
\* immediately before that stop() was called.
C27_CountBeforeStop ==
    \A i \in DOMAIN cast.ops : (cast.ops[i].op = "stop" /\ cast.ops[i].st = "resolved") => Len(cast.ops[i].ret) = cast.ops[i].count

\* =================================================================
\* Keyboard
\* =================================================================
MaxText == 2         \* longest text given to type()

ModifierKeys == {"Shift", "Control", "Alt", "Meta"}

\* The keys explored: the modifiers, a key with a definition, a key without.
Keys == ModifierKeys \cup {"Enter", "a"}

\* The names KEY_DEFINITIONS has an entry for, among the keys and characters
\* explored.
HasDefinition(key) == key \in ModifierKeys \cup {"Enter"}

\* The characters of the texts explored; `for (const char of text)` yields
\* single characters.
Chars == {"a", "b"}

Texts == UNION {[1..n -> Chars] : n \in 1..MaxText}

\* The bit of a modifier key in this.modifiers.
BitOf(key) == IF key = "Shift" THEN 8 ELSE IF key = "Control" THEN 4 ELSE IF key = "Alt" THEN 2 ELSE 1

HasBit(m, b) == (m \div b) % 2 = 1

\* m | b and m & ~b for a single bit b
Or(m, b) == IF HasBit(m, b) THEN m ELSE m + b

\* Mutant of AndNot: every bit is cleared.
AndNotAll(m, b) == 0

AndNot(m, b) == IF HasBit(m, b) THEN m - b ELSE m

\* The params of the events of down() / up(), and of the events of type().
KeyEvent(type, key, m) == [type |-> type, key |-> key, text |-> "", modifiers |-> m]

TextEvent(type, char) == [type |-> type, key |-> "", text |-> char, modifiers |-> Absent]

\* down(key) and up(key) up to their await
Down(k, key) ==
    LET m == IF key \in ModifierKeys THEN Or(k.modifiers, BitOf(key)) ELSE k.modifiers
    IN [k EXCEPT !.modifiers = m, !.last = KeyEvent("keyDown", key, m)]

Up(k, key) ==
    LET m == IF key \in ModifierKeys THEN AndNot(k.modifiers, BitOf(key)) ELSE k.modifiers
    IN [k EXCEPT !.modifiers = m, !.last = KeyEvent("keyUp", key, m)]

\* The body of the loop of type() for the first character of k.text, up to
\* its first await.
TypeChar(k) ==
    LET char == Head(k.text)
    IN IF HasDefinition(char) THEN [Down(k, char) EXCEPT !.tpc = "pressDown"]
       ELSE [k EXCEPT !.last = TextEvent("keyDown", char), !.tpc = "down"]

KbdDown(key) ==
    /\ kbd' = Down(kbd, key)
    /\ UNCHANGED <<session, nav, poll, cast, query, fan>>

KbdUp(key) ==
    /\ kbd' = Up(kbd, key)
    /\ UNCHANGED <<session, nav, poll, cast, query, fan>>

\* press(key) is called: down(key) runs to its await.
KbdPress(key) ==
    /\ kbd.press = ""
    /\ kbd' = [Down(kbd, key) EXCEPT !.press = key]
    /\ UNCHANGED <<session, nav, poll, cast, query, fan>>

\* The event of down() is answered: press() goes on with up(key).
KbdPressUp ==
    /\ kbd.press # ""
    /\ kbd' = [Up(kbd, kbd.press) EXCEPT !.press = ""]
    /\ UNCHANGED <<session, nav, poll, cast, query, fan>>

\* type(text) is called and runs to its first await.
KbdType(text) ==
    /\ kbd.tpc = "idle"
    /\ kbd' = TypeChar([kbd EXCEPT !.text = text])
    /\ UNCHANGED <<session, nav, poll, cast, query, fan>>

\* The event type() awaits is answered and type() runs to its next await or
\* to its end.
KbdTypeContinue ==
    /\ kbd.tpc # "idle"
    /\ kbd' = IF kbd.tpc = "down" THEN [kbd EXCEPT !.last = TextEvent("keyUp", Head(kbd.text)), !.tpc = "up"]
                ELSE IF kbd.tpc = "pressDown" THEN [Up(kbd, Head(kbd.text)) EXCEPT !.tpc = "up"]
                ELSE IF Tail(kbd.text) = <<>> THEN [kbd EXCEPT !.text = <<>>, !.tpc = "idle"]
                ELSE TypeChar([kbd EXCEPT !.text = Tail(@)])
    /\ UNCHANGED <<session, nav, poll, cast, query, fan>>

NextKbd ==
    \/ \E key \in Keys : KbdDown(key)
    \/ \E key \in Keys : KbdUp(key)
    \/ \E key \in Keys : KbdPress(key)
    \/ KbdPressUp
    \/ \E text \in Texts : KbdType(text)
    \/ KbdTypeContinue

SpecKbd == Init /\ [][NextKbd]_vars

\* The bits of the mask other than b are the same in m and n.
OtherBitsKept(m, n, b) == \A o \in {1, 2, 4, 8} \ {b} : HasBit(n, o) = HasBit(m, o)

\* C28: the modifier mask lies in 0..15; a step that dispatches the keyDown of
\* a modifier key leaves the mask with the bit of that key set and the other
\* bits as they were, one that dispatches its keyUp leaves it with that bit
\* clear and the others as they were; every other step (a key that is no
\* modifier, the events of type(), the end of type()) leaves the mask as it was.
C28_ModifierMask ==
    /\ [](kbd.modifiers \in 0..15)
    /\ [][LET e == kbd'.last
              m == kbd.modifiers
              n == kbd'.modifiers
          IN IF e.key \in ModifierKeys /\ e.type = "keyDown" /\ (e # kbd.last \/ n # m)
             THEN HasBit(n, BitOf(e.key)) /\ OtherBitsKept(m, n, BitOf(e.key))
             ELSE IF e.key \in ModifierKeys /\ e.type = "keyUp" /\ (e # kbd.last \/ n # m)
             THEN ~HasBit(n, BitOf(e.key)) /\ OtherBitsKept(m, n, BitOf(e.key))
             ELSE n = m]_vars

\* Shift has been released while the other three modifiers are held.
C28_Witness ==
    /\ kbd.last = KeyEvent("keyUp", "Shift", 7)
    /\ kbd.modifiers = 7

\* =================================================================
\* The queries of Page that look once
\* =================================================================
\* getByText(text, options) / getByRole(role, options) is called and runs to
\* its await of Runtime.evaluate; the options are read for exact / name only.
GetBy(kind, opt) ==
    /\ query.pc = "idle"
    /\ query' = [query EXCEPT !.kind = kind, !.pc = "evaluate", !.opt = opt, !.start = query.now, !.probes = @ + 1]
    /\ UNCHANGED <<session, nav, poll, cast, kbd, fan>>

\* The page inserts an element the query matches.
ElementAppears ==
    /\ ~query.present
    /\ query' = [query EXCEPT !.present = TRUE]
    /\ UNCHANGED <<session, nav, poll, cast, kbd, fan>>

\* Time passes.
QueryTick ==
    /\ query.pc # "done"
    /\ query.now < MaxTicks * PollInterval
    /\ query' = [query EXCEPT !.now = @ + PollInterval]
    /\ UNCHANGED <<session, nav, poll, cast, kbd, fan>>

\* Runtime.evaluate is answered, for the document as it is then:
\* if (result.exceptionDetails || !result.result.objectId) return null
AnswerEvaluate(exceptionDetails) ==
    /\ query.pc = "evaluate"
    /\ query' = IF exceptionDetails \/ ~query.present
                  THEN [query EXCEPT !.pc = "done", !.st = "resolved", !.val = Null]
                  ELSE [query EXCEPT !.pc = "requestNode"]
    /\ UNCHANGED <<session, nav, poll, cast, kbd, fan>>

\* DOM.requestNode is answered: return new ElementHandle(this.cdp, node.nodeId),
\* or the error of the command.
AnswerRequestNode(isError) ==
    /\ query.pc = "requestNode"
    /\ query' = IF isError
                  THEN [query EXCEPT !.pc = "done", !.st = "rejected", !.val = RemoteError]
                  ELSE [query EXCEPT !.pc = "done", !.st = "resolved", !.val = Element]
    /\ UNCHANGED <<session, nav, poll, cast, kbd, fan>>

NextQuery ==
    \/ \E kind \in {"getByText", "getByRole"} : \E opt \in TimeoutOptions : GetBy(kind, opt)
    \/ ElementAppears
    \/ QueryTick
    \/ \E exceptionDetails \in BOOLEAN : AnswerEvaluate(exceptionDetails)
    \/ \E isError \in BOOLEAN : AnswerRequestNode(isError)

SpecQuery == Init /\ [][NextQuery]_vars

\* C29 (as claimed): getByText and getByRole never return null: a call that
\* resolves returns the matching element.
C29_AutoWait == query.st = "resolved" => query.val = Element

\* =================================================================
\* Fan-out to callbacks that subscribe and unsubscribe one another
\* =================================================================
\* The callbacks explored, all written for one event name.
FanListeners == 1..5

\* What a callback does when it is invoked: callback 2 calls off() for
\* callback 3, callback 4 calls on() for callback 1, callback 5 throws, the
\* others do nothing.
Script(l) ==
    IF l = 2 THEN [do |-> "off", whom |-> 3]
    ELSE IF l = 4 THEN [do |-> "on", whom |-> 1]
    ELSE IF l = 5 THEN [do |-> "throw", whom |-> 0]
    ELSE [do |-> "none", whom |-> 0]

\* The effect of listener(msg.params) on the Set being iterated: delete
\* empties the entry in place, add puts a callback not in the Set at the end.
Run(ent, l) ==
    IF Script(l).do = "off" THEN IterDelete(ent, Script(l).whom)
    ELSE IF Script(l).do = "on" THEN SetAdd(ent, Script(l).whom)
    ELSE ent

\* for (const listener of listeners) listener(msg.params): the iteration reads
\* the Set itself, entry after entry, up to the end the Set has by then; no
\* try surrounds the call, so a callback that throws ends the loop.
RECURSIVE FanOutLive(_, _, _)
FanOutLive(ent, i, inv) ==
    IF i > Len(ent) THEN [ent |-> ent, inv |-> inv]
    ELSE IF ent[i] = 0 THEN FanOutLive(ent, i + 1, inv)
    ELSE IF Script(ent[i]).do = "throw" THEN [ent |-> ent, inv |-> Append(inv, ent[i])]
    ELSE FanOutLive(Run(ent, ent[i]), i + 1, Append(inv, ent[i]))

\* on(event, l) and off(event, l), called between two frames
FanOn(l) ==
    /\ fan' = [set |-> SetAdd(fan.set, l), frame |-> FALSE, invoked |-> <<>>]
    /\ UNCHANGED <<session, nav, poll, cast, kbd, query>>

FanOff(l) ==
    /\ fan' = [set |-> SetDelete(fan.set, l), frame |-> FALSE, invoked |-> <<>>]
    /\ UNCHANGED <<session, nav, poll, cast, kbd, query>>

\* handleMessage for a frame of the event
FanDispatch ==
    /\ LET out == FanOutLive(fan.set, 1, <<>>) IN
       fan' = [set |-> Compact(out.ent), frame |-> TRUE, invoked |-> out.inv]
    /\ UNCHANGED <<session, nav, poll, cast, kbd, query>>

NextFan ==
    \/ \E l \in FanListeners : FanOn(l)
    \/ \E l \in FanListeners : FanOff(l)
    \/ FanDispatch

SpecFan == Init /\ [][NextFan]_vars

\* C30 (as claimed): the callbacks invoked for a frame are those registered for
\* the event when the handling of the frame began, in their order, whatever
\* the callbacks do to the Set during the fan-out (none of them throwing).
C30_SnapshotFanOut ==
    [][(fan'.frame /\ \A l \in Range(fan.set) : Script(l).do # "throw") => fan'.invoked = fan.set]_vars

\* The navigation command of the wait (Page.navigate, Page.reload,
\* Page.navigateToHistoryEntry) has been written to the socket.
NavCommandWritten(kinds) ==
    /\ nav.kind \in kinds
    /\ nav.pc \in {"command", "afterCommand", "racing"}
    /\ \E j \in DOMAIN wire : wire[j].cmd = nav.cmd

\* A load event handled in this step, on an open socket, while the wait with
\* its navigation command written is pending, reaches the handler of the wait.
LoadEventCaught(kinds) ==
    (NavCommandWritten(kinds) /\ nav.st = "pending" /\ wsState = "open" /\ lastFrame' = EventFrame(LoadEvent)) => nav'.loaded

\* C31 (as claimed): in goto, reload, goBack and goForward the load-event
\* handler is registered by the time the navigation command is written, so a
\* load event handled at any time after that, also before the answer to the
\* command, resolves the promise of the event.
C31_ListenerBeforeCommand == [][LoadEventCaught({"goto", "reload"} \cup HistoryKinds)]_vars

\* C32: once goto, reload or waitForNavigation has settled, by the load event,
\* by its timer or by the failure of its command, no timer of the call is
\* armed: it was never created, has fired, or is cleared.
C32_TimerReleased ==
    (nav.kind \in NavKinds /\ nav.st # "pending") => nav.timer \in {"none", "fired", "cleared"}

\* goto has resolved by the load event, and the timer it armed after the
\* answer to its command is cleared.
C32_Witness ==
    /\ nav.kind = "goto"
    /\ nav.st = "resolved"
    /\ nav.loaded
    /\ nav.timer = "cleared"

\* C33 (as claimed): the key event dispatched last, whichever of down(), up(),
\* press() and type() sent it, carries in its modifiers field the mask of the
\* modifier keys held.
C33_EventsCarryModifiers ==
    (kbd.last # NoEvent /\ kbd.modifiers # 0) => kbd.last.modifiers = kbd.modifiers

\* C34 (as claimed): once close() has run the map of pending calls is empty
\* and stays so, and no send() call is left holding a slot in it.
C34_NoSlotAfterClose ==
    wsState = "terminated" => (callbacks = EmptyMap /\ \A c \in Calls : calls[c].st # "pending")

\* C35 (as claimed): when the navigation command of goto or reload is rejected,
\* with the error of the server or by close(), the call is rejected with the
\* error of the command, and the load-event handler it registered is no longer
\* registered.
C35_FailedCommandCleansUp ==
    (nav.kind \in {"goto", "reload"} /\ nav.st = "rejected" /\ calls[nav.cmd].st = "rejected"
         /\ calls[nav.cmd].val.tag \in {MessageOf(0).tag, ConnectionClosed.tag}) =>
        (nav.val = calls[nav.cmd].val /\ ~Registered(NavHandler, LoadEvent))

\* C36 (as claimed): the timer of goto and reload is armed for as long as
\* their command is written and not answered, and a call in that state does
\* settle, by its timer if by nothing else, as long as the socket stays open.
C36_TimeoutCoversCommand ==
    /\ [](CommandIssued => nav.timer = "armed")
    /\ (CommandIssued ~> (nav.st # "pending" \/ wsState # "open"))

\* C37 (as claimed): when the command of a start() is answered with an error,
\* the call is rejected with that error and leaves the screencast not
\* recording, with no frame handler held or registered.
C37_FailedStartRollsBack ==
    [][\A i \in 1..MaxOps : (Settles(i, "rejected") /\ cast.ops[i].op = "start") =>
           /\ cast'.ops[i].val = RemoteError
           /\ ~IsRecording(cast')
           /\ ~cast'.listening
           /\ ~cast'.frameHandler]_vars

\* A stop() whose command is not answered yet.
StopInFlight(c) == \E i \in DOMAIN c.ops : c.ops[i].op = "stop" /\ c.ops[i].st \in {"queued", "awaiting"}

\* C38 (as claimed): a stop() called while the command of an earlier stop() is
\* not answered yet is rejected with 'Screencast not recording' and sends
\* nothing, so that Page.stopScreencast goes out once and one call returns
\* the buffer.
C38_OneStopWins ==
    [][(StopInFlight(cast) /\ Called("stop")) =>
           /\ LastOp(cast').st = "refused"
           /\ LastOp(cast').val = NotRecording
           /\ cast'.queue = cast.queue]_vars

\* C39 (as claimed): when a callback throws during the fan-out of a frame, and
\* no callback registered for the event touches the Set, every callback
\* registered for the event is still invoked for the frame, in order, and the
\* Set is left as it was.
C39_ThrowDoesNotStopFanOut ==
    [][(/\ fan'.frame
        /\ \A l \in Range(fan.set) : Script(l).do \in {"none", "throw"}
        /\ \E t \in Range(fan.set) : Script(t).do = "throw") =>
           (fan'.invoked = fan.set /\ fan'.set = fan.set)]_vars

\* C40: from the call of waitForResponse on, its handler is registered for as
\* long as the wait is pending and the session not closed, in particular
\* whenever a command the caller issues afterwards is written to the socket;
\* and a matching response event handled while the wait is pending, on an open
\* socket, resolves it with the params of that event.
C40_ListenerBeforeCallerCommand ==
    /\ []((nav.kind = "waitForResponse" /\ nav.st = "pending" /\ wsState # "terminated") => Registered(NetHandler, NetEvent))
    /\ [][(nav'.kind = "waitForResponse" /\ nav'.st = "pending" /\ wire' # wire) =>
              (Registered(NetHandler, NetEvent) /\ Registered(NetHandler, NetEvent)')]_vars
    /\ [][(nav.kind = "waitForResponse" /\ nav.st = "pending" /\ wsState = "open" /\ IsMatchingResponse(lastFrame')) =>
              (nav'.st = "resolved" /\ nav'.val = lastFrame'.params)]_vars

\* waitForResponse has resolved by a matching response that arrived after a
\* command of the caller was written and before that command was answered.
C40_Witness ==
    /\ nav.kind = "waitForResponse"
    /\ nav.st = "resolved"
    /\ IsMatchingResponse(lastFrame)
    /\ wire # <<>>
    /\ calls[1].st = "pending"

====
